---- MODULE Spec2Model ----
(***************************************************************************)
(* SnackSprint API (src/main.py): the request handlers seed_demo_data,     *)
(* list_restaurants, list_menu and create_order over a document store      *)
(* with three collections, or over the demo fixtures when no store is      *)
(* configured (db is None).                                                *)
(*                                                                         *)
(* Handlers are sync FastAPI routes and run on worker threads, so calls    *)
(* interleave at store calls: every store call is one step of a handler.   *)
(*                                                                         *)
(* Money is held in thousandths of a dollar (9.99 is 9990), so that        *)
(* round(total, 2) is a real rounding to a multiple of 10.                 *)
(***************************************************************************)
EXTENDS Integers, Sequences, FiniteSets, TLC

VARIABLES
    db,          \* TRUE when the store handle is configured (db is not None)
    restaurant,  \* collection "restaurant": sequence of documents
    menuitem,    \* collection "menuitem"
    order,       \* collection "order"
    nextOid,     \* next store-assigned identity
    pc,          \* per handler thread: where the call stands
    rest_id,     \* seed_demo_data's local rest_id
    itm,         \* seed_demo_data's loop position in DEMO_MENU
    order_doc,   \* create_order's local order_doc
    last,        \* the response most recently returned, with its request
    reqs,        \* number of requests accepted so far
    input,       \* the order payload under test (pure-function runs)
    okOrders,    \* history: store-backed create_order calls that returned ok
    seedOk,      \* history: seed calls that returned {ok, mode: db}
    seedInserts, \* history: documents inserted by seed calls
    seedRaised,  \* history: the store raised during some seed call
    seeded       \* history: a seed call found no Restaurant and returned ok

vars == <<db, restaurant, menuitem, order, nextOid, pc, rest_id, itm,
          order_doc, last, reqs, input, okOrders, seedOk, seedInserts,
          seedRaised, seeded>>

-----------------------------------------------------------------------------
(* Bounds *)

NumProcs == 2
MaxReq == 2
MaxItems == 2
MaxQty == 2
MaxNegQty == 1

Procs == 1..NumProcs
Qtys == (0 - MaxNegQty)..MaxQty
Prices == {9990, 8490, 1004}

-----------------------------------------------------------------------------
(* Documents as records *)

Without(d, k) == [x \in DOMAIN d \ {k} |-> d[x]]

With(d, k, v) == [x \in DOMAIN d \cup {k} |-> IF x = k THEN v ELSE d[x]]

Range(s) == {s[i] : i \in 1..Len(s)}

DEMO_RESTAURANT ==
    [id |-> "demo-1",
     name |-> "SnackSprint Diner",
     description |-> "Burgers, bowls and bites delivered fast",
     image |-> "https://images.unsplash.com/photo-1550547660-d9450f859349?w=1200",
     cuisine |-> "American",
     rating |-> "4.7"]

DEMO_MENU ==
    << [id |-> "m1", restaurant_id |-> DEMO_RESTAURANT.id,
        name |-> "Classic Burger",
        description |-> "Juicy beef patty, cheddar, pickles",
        price |-> 9990, image |-> "https://images.unsplash.com/photo-1550547660-2f9b63f1f7b0?w=1200",
        is_veg |-> FALSE, spice_level |-> "Mild"],
       [id |-> "m2", restaurant_id |-> DEMO_RESTAURANT.id,
        name |-> "Veggie Bowl",
        description |-> "Roasted veggies, quinoa, tahini",
        price |-> 8490, image |-> "https://images.unsplash.com/photo-1512621776951-a57141f2eefd?w=1200",
        is_veg |-> TRUE, spice_level |-> "Medium"],
       [id |-> "m3", restaurant_id |-> DEMO_RESTAURANT.id,
        name |-> "Spicy Chicken Wrap",
        description |-> "Crispy chicken, chipotle mayo",
        price |-> 10490, image |-> "https://images.unsplash.com/photo-1604908177076-9f2bf5f7955f?w=1200",
        is_veg |-> FALSE, spice_level |-> "Hot"] >>

-----------------------------------------------------------------------------
(* The document store accessor (module database) *)

\* str(ObjectId): the string form of a store-assigned identity
Str(oid) == "oid-" \o ToString(oid)

\* the identity insert(collection, document) returns: its string form
inserted_id(oid) == Str(oid)

\* count(collection, {})
count_documents(coll) == Len(coll)

\* insert(collection, document): the collection after the insert
create_document(coll, doc, oid) == Append(coll, With(doc, "_id", oid))

\* query(collection): every document
get_documents(coll) == coll

\* query(collection, {"restaurant_id": r})
get_documents_by_restaurant(coll, r) ==
    SelectSeq(coll, LAMBDA d : d.restaurant_id = r)

\* truth value of the store handle in `... if db else 0`
DbTruthy == db

-----------------------------------------------------------------------------
(* Responses *)

NoDoc == [none |-> TRUE]

NoResponse ==
    [op |-> "none", arg |-> "", fault |-> "none", status |-> 0,
     body |-> <<>>, doc |-> NoDoc]

Response(op, arg, fault, status, body, doc) ==
    [op |-> op, arg |-> arg, fault |-> fault, status |-> status,
     body |-> body, doc |-> doc]

\* raise HTTPException(status_code=500, detail=str(e))
InternalError == [detail |-> "store error"]

-----------------------------------------------------------------------------
(* create_order: the order document *)

Max(a, b) == IF a >= b THEN a ELSE b

\* a plausible slip: the quantity used as submitted
RECURSIVE OrderTotalUncoerced(_)
OrderTotalUncoerced(items) ==
    IF items = <<>> THEN 0
    ELSE items[1].quantity * items[1].price + OrderTotalUncoerced(Tail(items))

\* sum(max(1, i.quantity) * float(i.price) for i in payload.items)
RECURSIVE OrderTotalSum(_)
OrderTotalSum(items) ==
    IF items = <<>> THEN 0
    ELSE Max(1, items[1].quantity) * items[1].price + OrderTotalSum(Tail(items))

OrderTotal(items) == OrderTotalSum(items)

\* round(total, 2): to the nearest cent, an exact tie to the even cent
Round2(m) ==
    LET q == m \div 10
        r == m % 10
    IN  IF r > 5 \/ (r = 5 /\ q % 2 = 1) THEN 10 * (q + 1) ELSE 10 * q

\* i.model_dump(): the item's fields as submitted
model_dump(i) ==
    [item_id |-> i.item_id, name |-> i.name, price |-> i.price,
     quantity |-> i.quantity]

OrderDoc(payload) ==
    [restaurant_id |-> payload.restaurant_id,
     customer_name |-> payload.customer_name,
     phone |-> payload.phone,
     address |-> payload.address,
     notes |-> payload.notes,
     items |-> [k \in 1..Len(payload.items) |-> model_dump(payload.items[k])],
     total |-> Round2(OrderTotal(payload.items)),
     status |-> "pending"]

\* a plausible slip: a fresh placeholder per demo submission
DemoOrderIdNumbered == "demo-order-" \o ToString(reqs + 1)

DemoOrderId == "demo-order-1"

\* a plausible slip: the store's error swallowed and the order acknowledged
OrderResponseSwallow(raise, oid) ==
    [status |-> 200, body |-> [ok |-> TRUE, order_id |-> inserted_id(oid)]]

\* return {"ok": True, "order_id": order_id}, or the except branch
OrderResponse(raise, oid) ==
    IF raise
    THEN [status |-> 500, body |-> InternalError]
    ELSE [status |-> 200, body |-> [ok |-> TRUE, order_id |-> inserted_id(oid)]]

-----------------------------------------------------------------------------
(* Order payloads *)

OrderItemPayloads ==
    {[item_id |-> "m1", name |-> "Classic Burger", price |-> p, quantity |-> q] :
        p \in Prices, q \in Qtys}

RECURSIVE SeqsUpTo(_, _)
SeqsUpTo(S, n) ==
    IF n = 0 THEN {<<>>}
    ELSE LET shorter == SeqsUpTo(S, n - 1)
         IN  shorter \cup {Append(s, x) : s \in shorter, x \in S}

Payload(items) ==
    [restaurant_id |-> "demo-1", customer_name |-> "Ada", phone |-> "555-0100",
     address |-> "1 Main St", notes |-> "", items |-> items]

Payloads == {Payload(items) : items \in SeqsUpTo(OrderItemPayloads, MaxItems)}

Item(id, name, price, quantity) ==
    [item_id |-> id, name |-> name, price |-> price, quantity |-> quantity]

\* the payloads concurrent submissions draw from
SmallPayloads ==
    {Payload(<<Item("m1", "Classic Burger", 9990, 1),
               Item("m2", "Veggie Bowl", 8490, 0)>>),
     Payload(<<Item("m3", "Spicy Chicken Wrap", 10490, 2)>>)}

-----------------------------------------------------------------------------
(* State *)

TypeOK ==
    /\ db \in BOOLEAN
    /\ nextOid \in Nat
    /\ reqs \in 0..MaxReq
    /\ pc \in [Procs -> {"idle", "seed_restaurant", "seed_menu", "order_insert"}]

InitCommon ==
    /\ db \in BOOLEAN
    /\ restaurant = <<>>
    /\ menuitem = <<>>
    /\ order = <<>>
    /\ nextOid = 1
    /\ pc = [p \in Procs |-> "idle"]
    /\ rest_id = [p \in Procs |-> ""]
    /\ itm = [p \in Procs |-> 0]
    /\ order_doc = [p \in Procs |-> NoDoc]
    /\ last = NoResponse
    /\ reqs = 0
    /\ okOrders = 0
    /\ seedOk = 0
    /\ seedInserts = 0
    /\ seedRaised = FALSE
    /\ seeded = FALSE

Init == InitCommon /\ input = Payload(<<>>)

InitOrder == InitCommon /\ input \in Payloads

store == <<restaurant, menuitem, order, nextOid>>
seedLocals == <<rest_id, itm>>
seedHistory == <<seedOk, seedInserts, seedRaised, seeded>>

-----------------------------------------------------------------------------
(* create_order *)

\* lines 149-162: the document is built; without a store the call returns
CreateOrderBegin(p, payload) ==
    /\ pc[p] = "idle"
    /\ reqs < MaxReq
    /\ reqs' = reqs + 1
    /\ IF ~db
       THEN /\ last' = Response("create_order", "", "none", 200,
                                [ok |-> TRUE, order_id |-> DemoOrderId],
                                OrderDoc(payload))
            /\ UNCHANGED <<pc, order_doc>>
       ELSE /\ pc' = [pc EXCEPT ![p] = "order_insert"]
            /\ order_doc' = [order_doc EXCEPT ![p] = OrderDoc(payload)]
            /\ UNCHANGED last
    /\ UNCHANGED <<db, store, seedLocals, input, okOrders, seedHistory>>

\* lines 163-166: the insert, and the response
CreateOrderInsert(p, raise) ==
    /\ pc[p] = "order_insert"
    /\ LET r == OrderResponse(raise, nextOid)
       IN  /\ last' = Response("create_order", "",
                               IF raise THEN "insert" ELSE "none",
                               r.status, r.body, order_doc[p])
           /\ okOrders' = IF r.status = 200 THEN okOrders + 1 ELSE okOrders
    /\ IF raise
       THEN UNCHANGED <<order, nextOid>>
       ELSE /\ order' = create_document(order, order_doc[p], nextOid)
            /\ nextOid' = nextOid + 1
    /\ pc' = [pc EXCEPT ![p] = "idle"]
    /\ order_doc' = [order_doc EXCEPT ![p] = NoDoc]
    /\ UNCHANGED <<db, restaurant, menuitem, seedLocals, reqs, input, seedHistory>>

NextOrder ==
    \/ CreateOrderBegin(1, input)
    \/ \E raise \in BOOLEAN : CreateOrderInsert(1, raise)

SpecOrder == InitOrder /\ [][NextOrder]_vars

-----------------------------------------------------------------------------
(* seed_demo_data *)

\* lines 81-87: the Restaurant document
SeedRestaurantDoc ==
    [name |-> DEMO_RESTAURANT.name,
     description |-> DEMO_RESTAURANT.description,
     image |-> DEMO_RESTAURANT.image,
     cuisine |-> DEMO_RESTAURANT.cuisine,
     rating |-> DEMO_RESTAURANT.rating]

\* a plausible slip: the fixture's restaurant_id left in place
SeedMenuDocDemoRef(k, rid) == Without(DEMO_MENU[k], "id")

\* lines 91-93: the k-th MenuItem document
SeedMenuDoc(k, rid) == With(Without(DEMO_MENU[k], "id"), "restaurant_id", rid)

\* a plausible slip: no existence check
SeedNeededAlways(restaurants) == TRUE

\* line 78
SeedNeeded(restaurants) == restaurants = 0

SeedOkResponse(mode) ==
    Response("seed", "", "none", 200, [ok |-> TRUE, mode |-> mode], NoDoc)

SeedErrorResponse(at) == Response("seed", "", at, 500, InternalError, NoDoc)

\* lines 73-78 and 95: the existence check
SeedCount(p, raise) ==
    /\ pc[p] = "idle"
    /\ reqs < MaxReq
    /\ reqs' = reqs + 1
    /\ IF ~db
       THEN /\ last' = SeedOkResponse("demo")
            /\ UNCHANGED <<pc, seedHistory>>
       ELSE IF raise
       THEN /\ last' = SeedErrorResponse("count")
            /\ seedRaised' = TRUE
            /\ UNCHANGED <<pc, seedOk, seedInserts, seeded>>
       ELSE LET restaurants ==
                    IF DbTruthy THEN count_documents(restaurant) ELSE 0
            IN  IF SeedNeeded(restaurants)
                THEN /\ pc' = [pc EXCEPT ![p] = "seed_restaurant"]
                     /\ UNCHANGED <<last, seedHistory>>
                ELSE /\ last' = SeedOkResponse("db")
                     /\ seedOk' = seedOk + 1
                     /\ UNCHANGED <<pc, seedInserts, seedRaised, seeded>>
    /\ UNCHANGED <<db, store, seedLocals, order_doc, input, okOrders>>

\* lines 79-89: the Restaurant insert
SeedInsertRestaurant(p, raise) ==
    /\ pc[p] = "seed_restaurant"
    /\ IF raise
       THEN /\ last' = SeedErrorResponse("insert")
            /\ seedRaised' = TRUE
            /\ pc' = [pc EXCEPT ![p] = "idle"]
            /\ UNCHANGED <<restaurant, nextOid, seedLocals, seedInserts>>
       ELSE /\ restaurant' = create_document(restaurant, SeedRestaurantDoc, nextOid)
            /\ nextOid' = nextOid + 1
            /\ rest_id' = [rest_id EXCEPT ![p] = inserted_id(nextOid)]
            /\ itm' = [itm EXCEPT ![p] = 1]
            /\ seedInserts' = seedInserts + 1
            /\ pc' = [pc EXCEPT ![p] = "seed_menu"]
            /\ UNCHANGED <<last, seedRaised>>
    /\ UNCHANGED <<db, menuitem, order, order_doc, reqs, input, okOrders,
                   seedOk, seeded>>

\* lines 90-95: one pass of the loop over DEMO_MENU, and the return after it
SeedInsertMenuItem(p, raise) ==
    /\ pc[p] = "seed_menu"
    /\ IF raise
       THEN /\ last' = SeedErrorResponse("insert")
            /\ seedRaised' = TRUE
            /\ pc' = [pc EXCEPT ![p] = "idle"]
            /\ rest_id' = [rest_id EXCEPT ![p] = ""]
            /\ itm' = [itm EXCEPT ![p] = 0]
            /\ UNCHANGED <<menuitem, nextOid, seedOk, seedInserts, seeded>>
       ELSE /\ menuitem' = create_document(menuitem, SeedMenuDoc(itm[p], rest_id[p]),
                                           nextOid)
            /\ nextOid' = nextOid + 1
            /\ seedInserts' = seedInserts + 1
            /\ IF itm[p] = Len(DEMO_MENU)
               THEN /\ last' = SeedOkResponse("db")
                    /\ seedOk' = seedOk + 1
                    /\ seeded' = TRUE
                    /\ pc' = [pc EXCEPT ![p] = "idle"]
                    /\ rest_id' = [rest_id EXCEPT ![p] = ""]
                    /\ itm' = [itm EXCEPT ![p] = 0]
               ELSE /\ itm' = [itm EXCEPT ![p] = itm[p] + 1]
                    /\ UNCHANGED <<last, pc, rest_id, seedOk, seeded>>
            /\ UNCHANGED seedRaised
    /\ UNCHANGED <<db, restaurant, order, order_doc, reqs, input, okOrders>>

-----------------------------------------------------------------------------
(* list_restaurants and list_menu *)

\* where the try block of a read can raise
Faults == {"none", "query", "remap"}

\* d["id"] = str(d.pop("_id"))
Remap(d) == With(Without(d, "_id"), "id", Str(d._id))

RemapAll(data) == [k \in 1..Len(data) |-> Remap(data[k])]

\* the try block raises: the query does, or the loop does on some document
Raises(fault, data) == fault = "query" \/ (fault = "remap" /\ data # <<>>)

\* a plausible slip: the store's error passed on to the caller
ListRestaurantsResponseReraise(fault) ==
    IF ~db
    THEN [status |-> 200, body |-> <<DEMO_RESTAURANT>>]
    ELSE IF Raises(fault, get_documents(restaurant))
    THEN [status |-> 500, body |-> InternalError]
    ELSE [status |-> 200, body |-> RemapAll(get_documents(restaurant))]

\* lines 101-112
ListRestaurantsResponse(fault) ==
    IF ~db
    THEN [status |-> 200, body |-> <<DEMO_RESTAURANT>>]
    ELSE IF Raises(fault, get_documents(restaurant))
    THEN [status |-> 200, body |-> <<DEMO_RESTAURANT>>]
    ELSE [status |-> 200, body |-> RemapAll(get_documents(restaurant))]

\* a plausible slip: the demo menu returned whole
DemoMenuForUnfiltered(r) == DEMO_MENU

\* [m for m in DEMO_MENU if m["restaurant_id"] == restaurant_id]
DemoMenuFor(r) == SelectSeq(DEMO_MENU, LAMBDA m : m.restaurant_id = r)

\* lines 116-127
ListMenuResponse(r, fault) ==
    IF ~db
    THEN [status |-> 200, body |-> DemoMenuFor(r)]
    ELSE IF Raises(fault, get_documents_by_restaurant(menuitem, r))
    THEN [status |-> 200, body |-> DemoMenuFor(r)]
    ELSE [status |-> 200,
          body |-> RemapAll(get_documents_by_restaurant(menuitem, r))]

ListRestaurants(p, fault) ==
    /\ pc[p] = "idle"
    /\ reqs < MaxReq
    /\ reqs' = reqs + 1
    /\ LET r == ListRestaurantsResponse(fault)
       IN  last' = Response("list_restaurants", "", fault, r.status, r.body, NoDoc)
    /\ UNCHANGED <<db, store, pc, seedLocals, order_doc, input, okOrders,
                   seedHistory>>

ListMenu(p, restaurant_id, fault) ==
    /\ pc[p] = "idle"
    /\ reqs < MaxReq
    /\ reqs' = reqs + 1
    /\ LET r == ListMenuResponse(restaurant_id, fault)
       IN  last' = Response("list_menu", restaurant_id, fault, r.status, r.body,
                            NoDoc)
    /\ UNCHANGED <<db, store, pc, seedLocals, order_doc, input, okOrders,
                   seedHistory>>

\* the restaurant ids requests ask for
RequestedIds ==
    {DEMO_RESTAURANT.id, "nonexistent-id"} \cup {Str(d._id) : d \in Range(restaurant)}

-----------------------------------------------------------------------------
(* Specifications *)

Handler(p) ==
    \/ \E raise \in BOOLEAN : SeedCount(p, raise)
    \/ \E raise \in BOOLEAN : SeedInsertRestaurant(p, raise)
    \/ \E raise \in BOOLEAN : SeedInsertMenuItem(p, raise)
    \/ \E fault \in Faults : ListRestaurants(p, fault)
    \/ \E r \in RequestedIds : \E fault \in Faults : ListMenu(p, r, fault)
    \/ \E payload \in SmallPayloads : CreateOrderBegin(p, payload)
    \/ \E raise \in BOOLEAN : CreateOrderInsert(p, raise)

\* requests served by concurrent handler threads
Next == \E p \in Procs : Handler(p)

Spec == Init /\ [][Next]_vars

\* requests served one after the other
NextSeq == Handler(1)

SpecSeq == Init /\ [][NextSeq]_vars

-----------------------------------------------------------------------------
(* Properties *)

Abs(x) == IF x < 0 THEN 0 - x ELSE x

\* t is m rounded to two decimals: a whole cent nearest to m
IsRounded(m, t) ==
    /\ t % 10 = 0
    /\ Abs(t - m) <= 5
    /\ Abs(t - m) = 5 => (t \div 10) % 2 = 0

\* the quantity an item is charged for
Effective(q) == IF q < 1 THEN 1 ELSE q

\* the sum over the first n items of price times the quantity charged
\* (coerced) or the quantity as it stands
RECURSIVE SumUpTo(_, _, _)
SumUpTo(items, n, coerced) ==
    IF n = 0 THEN 0
    ELSE SumUpTo(items, n - 1, coerced)
         + (IF coerced THEN Effective(items[n].quantity) ELSE items[n].quantity)
           * items[n].price

EffectiveSum(items) == SumUpTo(items, Len(items), TRUE)

StoredSum(items) == SumUpTo(items, Len(items), FALSE)

\* every order document create_order has built or stored in this run
BuiltOrderDocs ==
    {order_doc[p] : p \in {q \in Procs : pc[q] = "order_insert"}}
        \cup {Without(d, "_id") : d \in Range(order)}
        \cup (IF last.op = "create_order" THEN {last.doc} ELSE {})

\* C1: the total create_order computes for a payload is the sum over its
\* items of max(1, quantity) * price, rounded to two decimals; the items
\* (9.99, 1), (8.49, 0) give 18.48.
C1_OrderTotal ==
    \A d \in BuiltOrderDocs :
        /\ d.items = input.items
        /\ IsRounded(EffectiveSum(input.items), d.total)
        /\ ( /\ Len(input.items) = 2
             /\ input.items[1].price = 9990 /\ input.items[1].quantity = 1
             /\ input.items[2].price = 8490 /\ input.items[2].quantity = 0 )
           => d.total = 18480

C1_Witness ==
    /\ db
    /\ Len(order) = 1
    /\ Len(input.items) = 2
    /\ input.items[1].price = 9990 /\ input.items[1].quantity = 1
    /\ input.items[2].price = 8490 /\ input.items[2].quantity = 0
    /\ order[1].total = 18480

\* C5: every persisted Order's total is the rounded sum, over the items
\* stored in that document, of price times the stored quantity.
C5_StoredTotal ==
    \A k \in 1..Len(order) : IsRounded(StoredSum(order[k].items), order[k].total)

IsSequence(b) == DOMAIN b = 1..Len(b)

\* C3: list_restaurants and list_menu always answer 200 with a sequence;
\* when the store query raises, list_restaurants answers the one demo
\* restaurant and list_menu(r) the demo menu filtered by r.
C3_ReadsNeverFail ==
    /\ last.op \in {"list_restaurants", "list_menu"} =>
          /\ last.status = 200
          /\ IsSequence(last.body)
    /\ (db /\ last.op = "list_restaurants" /\ last.fault = "query") =>
          last.body = <<DEMO_RESTAURANT>>
    /\ (db /\ last.op = "list_menu" /\ last.fault = "query") =>
          last.body = IF last.arg = "demo-1" THEN DEMO_MENU ELSE <<>>

C3_Witness ==
    /\ db
    /\ restaurant # <<>>
    /\ last.op = "list_restaurants"
    /\ last.fault = "query"
    /\ last.status = 200
    /\ last.body = <<DEMO_RESTAURANT>>

\* C4: with a store, the Order documents are exactly those of the calls that
\* returned ok, one each, all "pending", with distinct identities; a call
\* that returned ok returned the identity of its own document, and a call
\* whose insert raised returned 500 without ok.
C4_OrdersMatchAcks ==
    db =>
        /\ Len(order) = okOrders
        /\ \A i \in 1..Len(order) : order[i].status = "pending"
        /\ \A i, j \in 1..Len(order) : i # j => order[i]._id # order[j]._id
        /\ (last.op = "create_order" /\ last.status = 200) =>
              \E i \in 1..Len(order) :
                  /\ last.body = [ok |-> TRUE, order_id |-> Str(order[i]._id)]
                  /\ Without(order[i], "_id") = last.doc
        /\ (last.op = "create_order" /\ last.fault = "insert") =>
              /\ last.status = 500
              /\ "ok" \notin DOMAIN last.body

C4_Witness ==
    /\ db
    /\ okOrders = 1
    /\ last.op = "create_order" /\ last.status = 200
    /\ \E p \in Procs : pc[p] = "order_insert" /\ order_doc[p] # last.doc

\* b lists exactly the documents of S, each once
ListsExactly(b, S) == Range(b) = S /\ Len(b) = Cardinality(S)

StoredMenuFor(r) == {Remap(d) : d \in {x \in Range(menuitem) : x.restaurant_id = r}}

DemoMenuSetFor(r) == {m \in Range(DEMO_MENU) : m.restaurant_id = r}

\* C7 as stated: list_menu(r) answers exactly the demo fixtures (no store)
\* or exactly the stored MenuItems (with a store) whose restaurant_id is r.
C7_FilterAsStated ==
    \A r \in RequestedIds, f \in Faults :
        ListsExactly(ListMenuResponse(r, f).body,
                     IF db THEN StoredMenuFor(r) ELSE DemoMenuSetFor(r))

\* C7 amended: list_menu(r) answers exactly the stored MenuItems whose
\* restaurant_id is r when there is a store and the read does not raise, and
\* exactly the demo fixtures whose restaurant_id is r otherwise; "demo-1"
\* without a store gives the 3 demo items, an id no item references gives
\* the empty sequence.
C7_Filter ==
    \A r \in RequestedIds, f \in Faults :
        LET b == ListMenuResponse(r, f).body
            raised == f = "query" \/ (f = "remap" /\ StoredMenuFor(r) # {})
        IN  /\ ListsExactly(b, IF db /\ ~raised THEN StoredMenuFor(r)
                               ELSE DemoMenuSetFor(r))
            /\ (~db /\ r = "demo-1") => Len(b) = 3
            /\ (StoredMenuFor(r) = {} /\ DemoMenuSetFor(r) = {}) => b = <<>>

C7_Witness ==
    /\ db
    /\ last.op = "list_menu"
    /\ last.fault = "none"
    /\ last.arg # "demo-1"
    /\ Len(last.body) = 3
    /\ \A k \in 1..3 : last.body[k].restaurant_id = last.arg

\* C10: the store never holds more than one Restaurant nor more than three
\* MenuItems, whatever the interleaving of seed calls.
C10_NoDuplicateSeed == Len(restaurant) <= 1 /\ Len(menuitem) <= 3

-----------------------------------------------------------------------------
(* Properties of sequential runs *)

\* C2: once a seed call has returned ok and the store never raised during
\* a seed, the store holds one Restaurant and three MenuItems and the seed
\* calls together made four inserts, however many calls there were.
C2_SeedIdempotent ==
    (db /\ ~seedRaised /\ seedOk >= 1) =>
        /\ Len(restaurant) = 1
        /\ Len(menuitem) = 3
        /\ seedInserts = 1 + Len(DEMO_MENU)
        /\ \A p \in Procs : pc[p] \notin {"seed_restaurant", "seed_menu"}

C2_Witness ==
    /\ db
    /\ ~seedRaised
    /\ seedOk = 2
    /\ last.op = "seed"
    /\ Len(restaurant) = 1
    /\ Len(menuitem) = 3

\* C8: after a seed call that found no Restaurant and returned ok,
\* list_restaurants answers one restaurant whose id r is the string form of
\* its stored identity, list_menu(r) answers the three seeded items, each
\* with restaurant_id r and a non-empty id, the ids pairwise distinct, and
\* every stored MenuItem refers to a stored Restaurant.
C8_RoundTrip ==
    seeded =>
        LET rs == ListRestaurantsResponse("none").body
        IN  /\ Len(rs) = 1
            /\ Len(restaurant) = 1
            /\ rs[1].id = Str(restaurant[1]._id)
            /\ LET ms == ListMenuResponse(rs[1].id, "none").body
               IN  /\ Len(ms) = 3
                   /\ \A k \in 1..Len(ms) :
                         /\ ms[k].restaurant_id = rs[1].id
                         /\ ms[k].id # ""
                         /\ ms[k].name = DEMO_MENU[k].name
                         /\ ms[k].price = DEMO_MENU[k].price
                   /\ \A j, k \in 1..Len(ms) : j # k => ms[j].id # ms[k].id
            /\ \A m \in Range(menuitem) :
                  \E d \in Range(restaurant) : m.restaurant_id = Str(d._id)

C8_Witness ==
    /\ seeded
    /\ last.op = "list_menu"
    /\ last.fault = "none"
    /\ last.arg = Str(restaurant[1]._id)
    /\ Len(last.body) = 3

\* C9: whenever a seed call has just returned {ok, mode: "db"}, the store
\* holds one Restaurant and all three of its MenuItems.
C9_OkMeansSeeded ==
    (last.op = "seed" /\ last.status = 200 /\ last.body.mode = "db") =>
        /\ Len(restaurant) = 1
        /\ Len(menuitem) = 3

====
